---- MODULE Spec2Model ----
(***************************************************************************)
(* MockDrift: drift detection of mocks and VCR cassettes against an        *)
(* OpenAPI specification (mockdrift_core.py, pytest_mockdrift.py).         *)
(*                                                                         *)
(* Representation of Python values:                                        *)
(*   dict            a function with a set of strings as its domain        *)
(*   ordered dict    where iteration order is observable (the media types  *)
(*                   under "content"), a sequence of [key, value] records  *)
(*   list            a sequence                                            *)
(*   None            the record None                                       *)
(*   schema          [kind |-> "map", m |-> dict] for a mapping,           *)
(*                   [kind |-> "lit", lit |-> b] for a boolean schema      *)
(*   JSON instance   [t |-> "obj", keys |-> <<k1, ..>>, o |-> dict],       *)
(*                   [t |-> "arr", a |-> list], [t |-> "int", i |-> n],    *)
(*                   [t |-> "str", s |-> string]                           *)
(*   "a/b/c"         a reference string, as the sequence of its segments   *)
(*                   between "/" separators                                *)
(***************************************************************************)
EXTENDS Integers, Sequences, FiniteSets, TLC

VARIABLES entry, spec, _defs, _reports, ret

vars == <<entry, spec, _defs, _reports, ret>>

\* ------------------------------------------------------------- bounds

MaxReports == 2

MaxInteractions == 2

\* ------------------------------------------------------------- Python helpers

None == [kind |-> "none"]

EmptyMap == [k \in {} |-> 0]

Has(d, k) == k \in DOMAIN d

Get(d, k, dflt) == IF k \in DOMAIN d THEN d[k] ELSE dflt

Map(m) == [kind |-> "map", m |-> m]

Lit(b) == [kind |-> "lit", lit |-> b]

IsDict(schema) == schema.kind = "map"

\* Python truthiness of a schema value: None, {} and False are falsy.
Truthy(schema) ==
    CASE schema.kind = "none" -> FALSE
      [] schema.kind = "map" -> DOMAIN schema.m # {}
      [] schema.kind = "lit" -> schema.lit

Last(s) == s[Len(s)]

lower(method) ==
    CASE method \in {"get", "GET", "Get"} -> "get"
      [] method \in {"post", "POST"} -> "post"

upper(method) ==
    CASE method \in {"get", "GET", "Get"} -> "GET"
      [] method \in {"post", "POST"} -> "POST"

\* str(status): a status given as the integer 200 or as the string "200".
str(status) ==
    IF status.ty = "str" THEN status.s
    ELSE CASE status.n = 200 -> "200"
           [] status.n = 404 -> "404"

StrStatus(s) == [ty |-> "str", s |-> s]

IntStatus(n) == [ty |-> "int", n |-> n]

\* ------------------------------------------------------------- specification documents

Ref(segs) == Map("$ref" :> segs)

UserSchema ==
    Map([type |-> "object",
         required |-> <<"id", "email">>,
         properties |-> [id |-> Map([type |-> "integer"]),
                         email |-> Map([type |-> "string"]),
                         name |-> Map([type |-> "string"])]])

Json(schema) == <<[key |-> "application/json", value |-> [schema |-> schema]]>>

\* OpenAPI 3 dialect: schemas under content, definitions under components.schemas.
DocOpenApi3 ==
    [openapi |-> "3.0.0",
     paths |->
       ("/users" :> [get |-> [responses |-> ("200" :> [description |-> "ok",
            content |-> Json(Map([type |-> "array",
                                  items |-> Ref(<<"#", "components", "schemas", "User">>)]))])]]
        @@ "/users/{id}" :> [get |-> [responses |->
            ("200" :> [description |-> "ok",
                       content |-> <<[key |-> "text/plain", value |-> [example |-> "x"]]>>
                                   \o Json(Ref(<<"#", "components", "schemas", "User">>))]
             @@ "404" :> [description |-> "not found"])]]
        @@ "/ghost" :> [get |-> [responses |-> ("200" :> [description |-> "ok",
            content |-> Json(Ref(<<"#", "components", "schemas", "Ghost">>))])]]),
     components |-> [schemas |->
        [User |-> UserSchema,
         Team |-> Map([type |-> "object",
                       required |-> <<"lead">>,
                       properties |-> [lead |-> Ref(<<"#", "components", "schemas", "User">>),
                                       members |-> Map([type |-> "array",
                                           items |-> Ref(<<"#", "components", "schemas", "User">>)])]])]]]

\* Swagger 2 dialect: schema attached to the response, definitions at the root.
DocSwagger2 ==
    [swagger |-> "2.0",
     paths |->
       ("/users" :> [get |-> [responses |-> ("200" :> [description |-> "ok",
            schema |-> Map([type |-> "array",
                            items |-> Ref(<<"#", "definitions", "User">>)])])]]
        @@ "/users/{id}" :> [get |-> [responses |-> ("200" :> [description |-> "ok",
            schema |-> Ref(<<"#", "definitions", "User">>)])],
                             post |-> EmptyMap]
        @@ "/ghost" :> [get |-> [responses |-> ("200" :> [description |-> "ok",
            schema |-> Ref(<<"#", "definitions", "Ghost">>)])]]),
     definitions |->
        [User |-> UserSchema,
         Team |-> Map([type |-> "object",
                       properties |-> [lead |-> Ref(<<"#", "definitions", "User">>)]])]]

\* A document with neither paths nor a definition table.
DocBare == [openapi |-> "3.0.0"]

SpecDocs == {DocOpenApi3, DocSwagger2, DocBare}

\* MockDriftDetector.__init__: the definition table chosen at load time.
LoadDefs(doc) ==
    IF Has(doc, "definitions") THEN doc["definitions"]
    ELSE Get(Get(doc, "components", EmptyMap), "schemas", EmptyMap)

\* ------------------------------------------------------------- _resolve

\* The target of a reference returned as the table holds it, unresolved.
RECURSIVE _resolve_target_as_is(_)
_resolve_target_as_is(schema) ==
    IF ~IsDict(schema) THEN schema
    ELSE IF Has(schema.m, "$ref")
    THEN Get(_defs, Last(schema.m["$ref"]), Map(EmptyMap))
    ELSE LET out == schema.m
             out1 == IF Has(out, "properties")
                     THEN [out EXCEPT !["properties"] =
                              [k \in DOMAIN out["properties"] |->
                                  _resolve_target_as_is(out["properties"][k])]]
                     ELSE out
             out2 == IF Has(out1, "items")
                     THEN [out1 EXCEPT !["items"] = _resolve_target_as_is(out1["items"])]
                     ELSE out1
         IN Map(out2)

RECURSIVE _resolve(_)
_resolve(schema) ==
    IF ~IsDict(schema) THEN schema
    ELSE IF Has(schema.m, "$ref")
    THEN LET name == Last(schema.m["$ref"])
         IN _resolve(Get(_defs, name, Map(EmptyMap)))
    ELSE LET out == schema.m
             out1 == IF Has(out, "properties")
                     THEN [out EXCEPT !["properties"] =
                              [k \in DOMAIN out["properties"] |->
                                  _resolve(out["properties"][k])]]
                     ELSE out
             out2 == IF Has(out1, "items")
                     THEN [out1 EXCEPT !["items"] = _resolve(out1["items"])]
                     ELSE out1
         IN Map(out2)

\* ------------------------------------------------------------- get_schema

\* The loop over resp.get("content", {}).values(): the first media with a schema.
RECURSIVE FirstMediaSchema(_)
FirstMediaSchema(content) ==
    IF content = <<>> THEN None
    ELSE IF Has(Head(content).value, "schema") THEN Head(content).value["schema"]
    ELSE FirstMediaSchema(Tail(content))

get_schema(path, method, status) ==
    LET ops == Get(Get(spec, "paths", EmptyMap), path, EmptyMap)
        m == lower(method)
    IN IF ~Has(ops, m) \/ DOMAIN ops[m] = {} THEN None
       ELSE LET resps == Get(ops[m], "responses", EmptyMap)
                st == str(status)
            IN IF ~Has(resps, st) \/ DOMAIN resps[st] = {} THEN None
               ELSE LET resp == resps[st]
                        content == Get(resp, "content", <<>>)
                    IN IF \E i \in DOMAIN content : Has(content[i].value, "schema")
                       THEN _resolve(FirstMediaSchema(content))
                       ELSE IF Has(resp, "schema") THEN _resolve(resp["schema"])
                       ELSE None

\* ------------------------------------------------------------- JSON instances

JObj(keys, o) == [t |-> "obj", keys |-> keys, o |-> o]

JArr(a) == [t |-> "arr", a |-> a]

JInt(i) == [t |-> "int", i |-> i]

JStr(s) == [t |-> "str", s |-> s]

Range(s) == {s[i] : i \in DOMAIN s}

\* The text the validator prints for an instance inside a message.
Repr(instance) ==
    CASE instance.t = "str" -> instance.s
      [] instance.t = "int" -> IF instance.i = 1 THEN "1" ELSE "42"
      [] instance.t = "obj" -> "{..}"
      [] instance.t = "arr" -> "[..]"

\* ------------------------------------------------------------- jsonschema.validate

\* The type checker of the validator, for the types the documents use.
is_type(instance, ty) ==
    CASE ty = "object" -> instance.t = "obj"
      [] ty = "array" -> instance.t = "arr"
      [] ty = "integer" -> instance.t = "int"
      [] ty = "string" -> instance.t = "str"

\* Every violation of the instance against the schema, each with the length of
\* its path into the instance (ValidationError.path) and its message.
RECURSIVE iter_errors(_, _, _)
iter_errors(instance, schema, depth) ==
    IF schema.kind = "lit"
    THEN IF schema.lit THEN {}
         ELSE {[depth |-> depth, validator |-> "false",
                message |-> <<"False schema does not allow ", Repr(instance)>>]}
    ELSE LET m == schema.m
             byType ==
                 IF Has(m, "type") /\ ~is_type(instance, m["type"])
                 THEN {[depth |-> depth, validator |-> "type",
                        message |-> <<Repr(instance), " is not of type ", m["type"]>>]}
                 ELSE {}
             byRequired ==
                 IF Has(m, "required") /\ instance.t = "obj"
                 THEN {[depth |-> depth, validator |-> "required",
                        message |-> <<p, " is a required property">>] :
                         p \in {q \in Range(m["required"]) : ~Has(instance.o, q)}}
                 ELSE {}
             byProperties ==
                 IF Has(m, "properties") /\ instance.t = "obj"
                 THEN UNION {iter_errors(instance.o[p], m["properties"][p], depth + 1) :
                                p \in DOMAIN m["properties"] \cap DOMAIN instance.o}
                 ELSE {}
             byItems ==
                 IF Has(m, "items") /\ instance.t = "arr"
                 THEN UNION {iter_errors(instance.a[i], m["items"], depth + 1) :
                                i \in DOMAIN instance.a}
                 ELSE {}
         IN byType \cup byRequired \cup byProperties \cup byItems

\* The errors with the longest path preferred instead.
best_match_deepest(errors) ==
    {e \in errors : \A f \in errors : e.depth >= f.depth}

\* best_match: the error raised is one of those with the shortest path; which
\* one among several equally short ones depends on the validator's version.
best_match(errors) ==
    {e \in errors : \A f \in errors : e.depth <= f.depth}

\* The messages validate() can raise for the instance: empty when it passes.
validate(instance, schema) ==
    {e.message : e \in best_match(iter_errors(instance, schema, 0))}

\* ------------------------------------------------------------- DriftReport

DriftReport(name, path, method, errors) ==
    [name |-> name, path |-> path, method |-> method, errors |-> errors]

\* A finding counted as drifted only from its second error on.
drifted_after_first(r) == Len(r.errors) > 1

drifted(r) == Len(r.errors) > 0

to_dict(r) ==
    [name |-> r.name, path |-> r.path, method |-> r.method,
     drifted |-> drifted(r), errors |-> r.errors]

\* ------------------------------------------------------------- check_mock

\* The message with the method as the caller wrote it.
no_schema_message_as_given(path, method, status) ==
    <<"No schema for ", method, " ", path, " [", str(status), "]">>

\* f"No schema for {method.upper()} {path} [{status}]"
no_schema_message(path, method, status) ==
    <<"No schema for ", upper(method), " ", path, " [", str(status), "]">>

\* The reports check_mock can return (one per message validate() can raise).
check_mock(name, data, path, method, status) ==
    LET schema == get_schema(path, method, status)
    IN IF ~Truthy(schema)
       THEN {DriftReport(name, path, method, <<no_schema_message(path, method, status)>>)}
       ELSE LET raised == validate(data, schema)
            IN IF raised = {} THEN {DriftReport(name, path, method, <<>>)}
               ELSE {DriftReport(name, path, method, <<msg>>) : msg \in raised}

\* ------------------------------------------------------------- text helpers

Digits == <<"0", "1", "2", "3", "4", "5", "6", "7", "8", "9">>

\* str(n) of a natural number, as the sequence of its decimal digits.
RECURSIVE fmt(_)
fmt(n) == IF n < 10 THEN <<Digits[n + 1]>> ELSE fmt(n \div 10) \o <<Digits[(n % 10) + 1]>>

SecondsPerDay == 86400

\* f"{age_days:.0f}" for an age of `secs` seconds: the nearest whole number of
\* days, a tie going to the even one.
fmt_0f(secs) ==
    LET q == secs \div SecondsPerDay
        r == secs % SecondsPerDay
    IN IF 2 * r < SecondsPerDay THEN fmt(q)
       ELSE IF 2 * r > SecondsPerDay THEN fmt(q + 1)
       ELSE IF q % 2 = 0 THEN fmt(q) ELSE fmt(q + 1)

\* urlparse(uri).path, the URI given as its tokens:
\* <<scheme, "://", netloc, path, "?", query, "#", fragment>>, each part optional.
urlparse_path(uri) ==
    LET rest == IF Len(uri) >= 2 /\ uri[2] = "://" THEN SubSeq(uri, 4, Len(uri)) ELSE uri
    IN IF rest = <<>> \/ Head(rest) \in {"?", "#"} THEN "" ELSE Head(rest)

\* ------------------------------------------------------------- json.loads

\* A JSON text is the sequence of its tokens.
P(c) == [k |-> "punct", v |-> c]

S(s) == [k |-> "string", v |-> s]

N(d) == [k |-> "number", v |-> d]

Word(w) == [k |-> "word", v |-> w]

Failed == [ok |-> FALSE]

NumberValue(d) == IF d = "1" THEN 1 ELSE 42

RECURSIVE parse_value(_), parse_members(_, _, _), parse_elements(_, _)
parse_value(toks) ==
    IF toks = <<>> THEN Failed
    ELSE LET h == Head(toks)
         IN CASE h.k = "number" ->
                   [ok |-> TRUE, val |-> JInt(NumberValue(h.v)), rest |-> Tail(toks)]
              [] h.k = "string" -> [ok |-> TRUE, val |-> JStr(h.v), rest |-> Tail(toks)]
              [] h = Word("null") -> [ok |-> TRUE, val |-> None, rest |-> Tail(toks)]
              [] h = P("{") ->
                   IF Len(toks) >= 2 /\ toks[2] = P("}")
                   THEN [ok |-> TRUE, val |-> JObj(<<>>, EmptyMap),
                         rest |-> SubSeq(toks, 3, Len(toks))]
                   ELSE parse_members(Tail(toks), <<>>, EmptyMap)
              [] h = P("[") ->
                   IF Len(toks) >= 2 /\ toks[2] = P("]")
                   THEN [ok |-> TRUE, val |-> JArr(<<>>), rest |-> SubSeq(toks, 3, Len(toks))]
                   ELSE parse_elements(Tail(toks), <<>>)
              [] OTHER -> Failed

parse_members(toks, keys, o) ==
    IF Len(toks) < 4 \/ toks[1].k # "string" \/ toks[2] # P(":") THEN Failed
    ELSE LET key == toks[1].v
             v == parse_value(SubSeq(toks, 3, Len(toks)))
         IN IF ~v.ok \/ v.rest = <<>> THEN Failed
            ELSE LET keys1 == IF Has(o, key) THEN keys ELSE Append(keys, key)
                     o1 == [x \in DOMAIN o \cup {key} |-> IF x = key THEN v.val ELSE o[x]]
                 IN IF Head(v.rest) = P("}")
                    THEN [ok |-> TRUE, val |-> JObj(keys1, o1), rest |-> Tail(v.rest)]
                    ELSE IF Head(v.rest) = P(",")
                    THEN parse_members(Tail(v.rest), keys1, o1)
                    ELSE Failed

parse_elements(toks, a) ==
    LET v == parse_value(toks)
    IN IF ~v.ok \/ v.rest = <<>> THEN Failed
       ELSE IF Head(v.rest) = P("]")
       THEN [ok |-> TRUE, val |-> JArr(Append(a, v.val)), rest |-> Tail(v.rest)]
       ELSE IF Head(v.rest) = P(",") THEN parse_elements(Tail(v.rest), Append(a, v.val))
       ELSE Failed

\* json.loads(body_str) with the caller's except clause: None when the text
\* does not parse.
json_loads(body_str) ==
    LET r == parse_value(body_str)
    IN IF r.ok /\ r.rest = <<>> THEN r.val ELSE None

\* ------------------------------------------------------------- check_cassette

\* The staleness error raised from the limit itself on.
stale_errors_from_limit(age_seconds, max_age_days) ==
    IF age_seconds >= max_age_days * SecondsPerDay
    THEN <<<<"Cassette age ">> \o fmt_0f(age_seconds) \o <<"d exceeds ">>
           \o fmt(max_age_days) \o <<"d limit">>>>
    ELSE <<>>

\* errs after the age test: the staleness error when the age is over the limit.
stale_errors(age_seconds, max_age_days) ==
    IF age_seconds > max_age_days * SecondsPerDay
    THEN <<<<"Cassette age ">> \o fmt_0f(age_seconds) \o <<"d exceeds ">>
           \o fmt(max_age_days) \o <<"d limit">>>>
    ELSE <<>>

\* The parsed response body of an interaction: None when it is missing,
\* empty or not JSON.
response_body(ix) ==
    LET res == Get(ix, "response", EmptyMap)
        body_str == Get(Get(res, "body", EmptyMap), "string", <<>>)
    IN IF body_str # <<>> THEN json_loads(body_str) ELSE None

\* The loop body of check_cassette for interaction number i (zero-based): the
\* reports it can append.
cassette_reports(i, ix, age_seconds, max_age_days) ==
    LET req == Get(ix, "request", EmptyMap)
        path == urlparse_path(Get(req, "uri", <<>>))
        method == lower(Get(req, "method", "GET"))
        stale == stale_errors(age_seconds, max_age_days)
        body == response_body(ix)
        schema == get_schema(path, method, StrStatus("200"))
        raised == IF body # None /\ Truthy(schema) THEN validate(body, schema) ELSE {}
        tag == <<"cassette[">> \o fmt(i) \o <<"]:", upper(method), " ", path>>
    IN IF raised = {} THEN {DriftReport(tag, path, method, stale)}
       ELSE {DriftReport(tag, path, method, Append(stale, <<"Body drift: ">> \o msg)) :
                msg \in raised}

\* The loop leaving out the interactions that have no body to check.
check_cassette_skipping(data, age_seconds, max_age_days) ==
    LET ixs == Get(data, "interactions", <<>>)
        kept == SelectSeq([i \in DOMAIN ixs |-> i], LAMBDA i : response_body(ixs[i]) # None)
        per == [k \in DOMAIN kept |->
                   cassette_reports(kept[k] - 1, ixs[kept[k]], age_seconds, max_age_days)]
    IN {reports \in [DOMAIN kept -> UNION Range(per)] :
           \A k \in DOMAIN kept : reports[k] \in per[k]}

\* The report lists check_cassette can return for a loaded cassette whose file
\* was modified age_seconds ago.
check_cassette(data, age_seconds, max_age_days) ==
    LET ixs == Get(data, "interactions", <<>>)
        per == [i \in DOMAIN ixs |-> cassette_reports(i - 1, ixs[i], age_seconds, max_age_days)]
    IN {reports \in [DOMAIN ixs -> UNION Range(per)] :
           \A i \in DOMAIN ixs : reports[i] \in per[i]}

\* ------------------------------------------------------------- to_sarif

sarif_result(r, e) ==
    [ruleId |-> "mockdrift/schema-drift", level |-> "error",
     message |-> [text |-> r.name \o <<": ">> \o e],
     locations |-> <<[physicalLocation |-> [artifactLocation |-> [uri |-> r.path]]]>>]

\* One result per drifted finding, for its first error alone.
RECURSIVE sarif_results_per_finding(_)
sarif_results_per_finding(reports) ==
    IF reports = <<>> THEN <<>>
    ELSE LET r == Head(reports)
         IN (IF drifted(r) THEN <<sarif_result(r, r.errors[1])>> ELSE <<>>)
            \o sarif_results_per_finding(Tail(reports))

\* [... for r in reports if r.drifted for e in r.errors]
RECURSIVE sarif_results(_)
sarif_results(reports) ==
    IF reports = <<>> THEN <<>>
    ELSE LET r == Head(reports)
         IN (IF drifted(r) THEN [j \in DOMAIN r.errors |-> sarif_result(r, r.errors[j])]
             ELSE <<>>)
            \o sarif_results(Tail(reports))

to_sarif(reports) ==
    ("version" :> "2.1.0"
     @@ "$schema" :> "https://json.schemastore.org/sarif-2.1.0.json"
     @@ "runs" :> <<[tool |-> [driver |-> [name |-> "MockDrift", version |-> "1.0.0",
                        rules |-> <<[id |-> "mockdrift/schema-drift",
                                     shortDescription |->
                                        [text |-> "Mock drifted from API schema"]]>>]],
                     results |-> sarif_results(reports)]>>)

\* ------------------------------------------------------------- VCRCassetteDriftChecker

\* Schema Locator: absent only when no schema is declared.
findSchema(path, method, status) == get_schema(path, method, status)

\* The key-level diff of a body against the resolved schema: "missing" and
\* "extra", each left out when its list is empty.
actual_keys_diff(body, schema) ==
    LET IsMapping == body # None /\ body.t = "obj"
        m == IF schema # None /\ IsDict(schema) THEN schema.m ELSE EmptyMap
        Absent(p) == ~Has(body.o, p)
        Undeclared(k) == ~Has(Get(m, "properties", EmptyMap), k)
        missing == IF IsMapping /\ Has(m, "required")
                   THEN SelectSeq(m["required"], Absent) ELSE <<>>
        extra == IF IsMapping THEN SelectSeq(body.keys, Undeclared) ELSE <<>>
    IN [k \in (IF missing # <<>> THEN {"missing"} ELSE {})
               \cup (IF extra # <<>> THEN {"extra"} ELSE {}) |->
           IF k = "missing" THEN missing ELSE extra]

DriftResult(name, path, method, errors, file, index, status, schema, diff) ==
    [name |-> name, path |-> path, method |-> method, errors |-> errors,
     cassette_file |-> file, interaction_index |-> index, status_code |-> status,
     expected_schema |-> schema, actual_keys_diff |-> diff]

\* The findings the checker can produce for interaction number i.
vcr_results(file, i, ix, age_seconds, max_age_days) ==
    LET req == Get(ix, "request", EmptyMap)
        path == urlparse_path(Get(req, "uri", <<>>))
        method == lower(Get(req, "method", "get"))
        stale == stale_errors(age_seconds, max_age_days)
        body == response_body(ix)
        schema == findSchema(path, method, StrStatus("200"))
        checked == body # None /\ schema # None
        raised == IF checked THEN validate(body, schema) ELSE {}
        diff == IF checked THEN actual_keys_diff(body, schema) ELSE EmptyMap
        tag == <<"cassette[">> \o fmt(i) \o <<"]:", upper(method), " ", path>>
        Result(errors) ==
            DriftResult(tag, path, method, errors, Last(file), i, "200", schema, diff)
    IN IF raised = {} THEN {Result(stale)}
       ELSE {Result(Append(stale, <<"Body drift: ">> \o msg)) : msg \in raised}

vcr_check(file, data, age_seconds, max_age_days) ==
    LET ixs == Get(data, "interactions", <<>>)
        per == [i \in DOMAIN ixs |->
                   vcr_results(file, i - 1, ixs[i], age_seconds, max_age_days)]
    IN {results \in [DOMAIN ixs -> UNION Range(per)] :
           \A i \in DOMAIN ixs : results[i] \in per[i]}

\* ------------------------------------------------------------- inputs

\* Mock payloads handed to the registry.
UserOk == JObj(<<"id", "email">>, [id |-> JInt(1), email |-> JStr("a@b.com")])

UserNoRequired == JObj(<<"name">>, [name |-> JStr("Alice")])

UserNoEmailBadId == JObj(<<"id">>, [id |-> JStr("NaN")])

UserWrongTypes == JObj(<<"id", "email">>, [id |-> JStr("NaN"), email |-> JInt(42)])

UserExtra ==
    JObj(<<"id", "email", "role", "avatar_url">>,
         [id |-> JInt(1), email |-> JStr("a@b.com"), role |-> JStr("admin"),
          avatar_url |-> JStr("x")])

Mock(data, path, method, status) ==
    [data |-> data, path |-> path, method |-> method, status |-> status]

\* The mocks the tests register: payload and (path, method, status).
Mocks ==
    {Mock(UserOk, "/users/{id}", "GET", StrStatus("200")),
     Mock(UserNoRequired, "/users/{id}", "get", IntStatus(200)),
     Mock(UserNoEmailBadId, "/users/{id}", "get", StrStatus("200")),
     Mock(UserWrongTypes, "/users/{id}", "Get", StrStatus("200")),
     Mock(UserExtra, "/users/{id}", "get", StrStatus("200")),
     Mock(JInt(1), "/users/{id}", "get", StrStatus("200")),
     Mock(JArr(<<UserOk>>), "/users", "get", StrStatus("200")),
     Mock(JArr(<<UserNoRequired, JStr("x")>>), "/users", "get", StrStatus("200")),
     Mock(UserOk, "/users/{id}", "get", IntStatus(404)),
     Mock(UserOk, "/users/{id}", "post", StrStatus("200")),
     Mock(UserNoRequired, "/users", "Get", StrStatus("404")),
     Mock(UserOk, "/orders", "get", StrStatus("200")),
     Mock(UserOk, "/ghost", "get", StrStatus("200")),
     Mock(UserNoRequired, "/ghost", "GET", StrStatus("200"))}

\* Response bodies of recorded interactions, as JSON texts.
Member(key, tok) == <<S(key), P(":"), tok>>

UserOkText ==
    <<P("{")>> \o Member("id", N("1")) \o <<P(",")>> \o Member("email", S("a@b.com"))
    \o <<P("}")>>

UserNoRequiredText == <<P("{")>> \o Member("name", S("Alice")) \o <<P("}")>>

UserExtraText ==
    <<P("{")>> \o Member("id", N("1")) \o <<P(",")>> \o Member("email", S("a@b.com"))
    \o <<P(",")>> \o Member("role", S("admin")) \o <<P(",")>>
    \o Member("avatar_url", S("x")) \o <<P("}")>>

UserWrongTypesText ==
    <<P("{")>> \o Member("id", S("NaN")) \o <<P(",")>> \o Member("email", N("42"))
    \o <<P("}")>>

Interaction(uri, method, body_str) ==
    [request |-> [uri |-> uri, method |-> method],
     response |-> [status |-> [code |-> 200], body |-> [string |-> body_str]]]

UserUri == <<"https", "://", "api.test", "/users/{id}">>

Interactions ==
    {Interaction(UserUri, "GET", UserOkText),
     Interaction(UserUri, "GET", UserNoRequiredText),
     Interaction(UserUri, "get", UserExtraText),
     Interaction(UserUri, "GET", UserWrongTypesText),
     Interaction(<<"https", "://", "api.test", "/users", "?", "page=2">>, "Get",
                 <<P("[")>> \o UserOkText \o <<P(","), P("{")>> \o Member("id", N("1"))
                 \o <<P("}"), P("]")>>),
     Interaction(<<"/users/{id}", "#", "top">>, "GET", <<P("{"), S("id"), P(":")>>),
     Interaction(<<"https", "://", "api.test", "/orders">>, "POST", UserOkText),
     EmptyMap}

\* Loaded cassette files: with up to MaxInteractions interactions, or without
\* the "interactions" key.
Cassettes ==
    {EmptyMap}
    \cup {[interactions |-> ixs] :
             ixs \in UNION {[1..n -> Interactions] : n \in 0..MaxInteractions}}

\* A check's clock reading and limit: time.time() - os.path.getmtime(path) in
\* seconds, and max_age_days.
Run(age_seconds, max_age_days) ==
    [age_seconds |-> age_seconds, max_age_days |-> max_age_days]

Runs ==
    {Run(0, 30), Run(30 * SecondsPerDay, 30), Run(30 * SecondsPerDay + 1, 30),
     Run(5 * (SecondsPerDay \div 2), 1)}

\* ------------------------------------------------------------- behaviour

\* The detector is built either by the pytest fixture, which wraps it in a
\* MockRegistry, or by a caller that uses it directly (main, the tests).
Init ==
    /\ entry \in {"fixture", "detector"}
    /\ spec \in SpecDocs
    /\ _defs = LoadDefs(spec)
    /\ _reports = <<>>
    /\ ret = [op |-> "__init__"]

ResolveInputs ==
    {Lit(TRUE), Map(EmptyMap), Map([type |-> "string"]),
     Ref(<<"#", "components", "schemas", "User">>),
     Ref(<<"#", "definitions", "Team">>),
     Ref(<<"#", "components", "schemas", "Ghost">>),
     Ref(<<"User">>),
     Map([type |-> "array", items |-> Ref(<<"#", "definitions", "Team">>)]),
     Map([type |-> "object",
          properties |-> ("owner" :> Ref(<<"#", "definitions", "User">>)
                          @@ "$ref" :> Map([type |-> "string"])
                          @@ "tags" :> Map([type |-> "array",
                                            items |-> Ref(<<"#", "x", "Ghost">>)])),
          items |-> Ref(<<"#", "definitions", "User">>)]),
     Map("$ref" :> <<"#", "definitions", "User">>
         @@ "properties" :> [a |-> Ref(<<"#", "definitions", "Team">>)])}

\* A direct caller makes one call on its detector and then renders what it
\* returned, as main does; only the registry lives across calls.
Fresh == entry = "detector" /\ ret.op = "__init__"

Resolve(schema) ==
    /\ Fresh
    /\ ret' = [op |-> "_resolve", schema |-> schema, result |-> _resolve(schema)]
    /\ UNCHANGED <<entry, spec, _defs, _reports>>

ResolveAgain ==
    /\ ret.op = "_resolve"
    /\ ret' = [op |-> "_resolve_twice", schema |-> ret.schema, first |-> ret.result,
               result |-> _resolve(ret.result)]
    /\ UNCHANGED <<entry, spec, _defs, _reports>>

\* MockRegistry.register
register(name, data, path, method, status) ==
    /\ entry = "fixture"
    /\ Len(_reports) < MaxReports
    /\ \E report \in check_mock(name, data, path, method, status) :
          /\ _reports' = Append(_reports, report)
          /\ ret' = [op |-> "register", data |-> data, status |-> status,
                     report |-> report]
    /\ UNCHANGED <<entry, spec, _defs>>

CheckCassette(data, age_seconds, max_age_days) ==
    /\ Fresh
    /\ \E reports \in check_cassette(data, age_seconds, max_age_days) :
          ret' = [op |-> "check_cassette", data |-> data, age_seconds |-> age_seconds,
                  max_age_days |-> max_age_days, reports |-> reports]
    /\ UNCHANGED <<entry, spec, _defs, _reports>>

VcrCheck(file, data, age_seconds, max_age_days) ==
    /\ Fresh
    /\ \E results \in vcr_check(file, data, age_seconds, max_age_days) :
          ret' = [op |-> "check", data |-> data, age_seconds |-> age_seconds,
                  max_age_days |-> max_age_days, reports |-> results]
    /\ UNCHANGED <<entry, spec, _defs, _reports>>

\* The reports at hand: the registry's, or those the last cassette check returned.
Reports ==
    IF entry = "fixture" THEN _reports
    ELSE IF ret.op = "check_cassette" THEN ret.reports ELSE <<>>

HasReports == entry = "fixture" \/ ret.op = "check_cassette"

ToSarif ==
    /\ HasReports
    /\ ret' = [op |-> "to_sarif", reports |-> Reports, sarif |-> to_sarif(Reports)]
    /\ UNCHANGED <<entry, spec, _defs, _reports>>

\* [r.to_dict() for r in reports]
ToDict ==
    /\ HasReports
    /\ ret' = [op |-> "to_dict", reports |-> Reports,
               dicts |-> [i \in DOMAIN Reports |-> to_dict(Reports[i])]]
    /\ UNCHANGED <<entry, spec, _defs, _reports>>

Next ==
    \/ \E schema \in ResolveInputs : Resolve(schema)
    \/ ResolveAgain
    \/ \E mock \in Mocks :
          register(<<"mock">>, mock.data, mock.path, mock.method, mock.status)
    \/ \E data \in Cassettes, run \in Runs :
          CheckCassette(data, run.age_seconds, run.max_age_days)
    \/ ToSarif
    \/ ToDict

Spec == Init /\ [][Next]_vars

\* The cassette checker of the tests, VCRCassetteDriftChecker, on its own.
NextVcr ==
    \E data \in Cassettes, run \in Runs :
       VcrCheck(<<"fixtures", "cassette.yaml">>, data, run.age_seconds, run.max_age_days)

SpecVcr == Init /\ [][NextVcr]_vars

\* ------------------------------------------------------------- properties

Interactions_(data) == Get(data, "interactions", <<>>)

Stale(age_seconds, max_age_days) == age_seconds > max_age_days * SecondsPerDay

\* The text of the staleness error for each clock reading of Runs that is
\* over its limit.
AgeMessage(age_seconds, max_age_days) ==
    IF max_age_days = 30
    THEN <<"Cassette age ", "3", "0", "d exceeds ", "3", "0", "d limit">>
    ELSE <<"Cassette age ", "2", "d exceeds ", "1", "d limit">>

IsAgeError(e) == e[1] = "Cassette age "

IsBodyError(e) == e[1] = "Body drift: "

PathOf(ix) == urlparse_path(Get(Get(ix, "request", EmptyMap), "uri", <<>>))

MethodOf(ix) == Get(Get(ix, "request", EmptyMap), "method", "GET")

\* C1: a cassette check returns exactly one finding per interaction, in file
\* order: finding i is named "cassette[i]:{METHOD} {path}" after interaction i
\* and carries its path and lower-cased method, whatever the body, the schema
\* or the file age.
CassetteOneFindingPerInteraction ==
    ret.op = "check_cassette" =>
        LET ixs == Interactions_(ret.data)
        IN /\ Len(ret.reports) = Len(ixs)
           /\ \A i \in DOMAIN ixs :
                 /\ ret.reports[i].name =
                       <<"cassette[", Digits[i], "]:", upper(MethodOf(ixs[i])), " ",
                         PathOf(ixs[i])>>
                 /\ ret.reports[i].path = PathOf(ixs[i])
                 /\ ret.reports[i].method = lower(MethodOf(ixs[i]))

\* A stale cassette of two interactions, the first with a body that does not
\* parse, the second with a body that fails validation.
CassetteBatchWitness ==
    /\ ret.op = "check_cassette"
    /\ Stale(ret.age_seconds, ret.max_age_days)
    /\ Len(ret.reports) = 2
    /\ LET ixs == Interactions_(ret.data)
       IN /\ Has(ixs[1], "response") /\ response_body(ixs[1]) = None
          /\ PathOf(ixs[1]) = "/users/{id}"
          /\ \E e \in Range(ret.reports[2].errors) : IsBodyError(e)

\* C2: every finding of a cassette check has the staleness error, with the
\* age rounded to whole days, exactly when the file age is strictly over the
\* limit, with or without a "Body drift" error beside it; a stale file makes
\* every finding drifted.
AgeErrorIffStale ==
    ret.op = "check_cassette" =>
        \A i \in DOMAIN ret.reports :
            LET errors == ret.reports[i].errors
            IN IF Stale(ret.age_seconds, ret.max_age_days)
               THEN /\ errors # <<>>
                    /\ errors[1] = AgeMessage(ret.age_seconds, ret.max_age_days)
                    /\ \A j \in 2..Len(errors) : ~IsAgeError(errors[j])
                    /\ drifted(ret.reports[i])
               ELSE \A j \in DOMAIN errors : ~IsAgeError(errors[j])

\* A stale cassette with one finding that has a body error beside the age
\* error and one finding whose only error is the age.
AgeWitness ==
    /\ ret.op = "check_cassette"
    /\ Stale(ret.age_seconds, ret.max_age_days)
    /\ \E i, j \in DOMAIN ret.reports :
          /\ Len(ret.reports[i].errors) = 2
          /\ IsBodyError(ret.reports[i].errors[2])
          /\ Len(ret.reports[j].errors) = 1
          /\ response_body(Interactions_(ret.data)[j]) # None

\* The response object the document declares for the coordinates, if any.
DeclaredResponse(path, method, status) ==
    LET paths == Get(spec, "paths", EmptyMap)
    IN IF /\ Has(paths, path)
          /\ Has(paths[path], lower(method))
          /\ Has(paths[path][lower(method)], "responses")
          /\ Has(paths[path][lower(method)]["responses"], str(status))
       THEN paths[path][lower(method)]["responses"][str(status)]
       ELSE EmptyMap

\* The schemas the document declares for the coordinates, unresolved.
DeclaredSchemas(path, method, status) ==
    LET resp == DeclaredResponse(path, method, status)
        content == Get(resp, "content", <<>>)
    IN {content[i].value["schema"] : i \in {j \in DOMAIN content : Has(content[j].value, "schema")}}
       \cup (IF Has(resp, "schema") THEN {resp["schema"]} ELSE {})

\* C3: for coordinates with no declared response schema, checkMock returns a
\* drifted finding whose only error is "No schema for {METHOD} {path} [{status}]".
NoSchemaFinding ==
    (ret.op = "register"
       /\ DeclaredSchemas(ret.report.path, ret.report.method, ret.status) = {}) =>
        /\ ret.report.errors =
              <<<<"No schema for ", upper(ret.report.method), " ", ret.report.path, " [",
                  str(ret.status), "]">>>>
        /\ ret.report.errors[1][2] \in {"GET", "POST"}
        /\ ret.report.errors[1][6] \in {"200", "404"}
        /\ drifted(ret.report)

\* A mock registered for a declared path and method under a status the
\* document gives no schema for.
NoSchemaWitness ==
    /\ ret.op = "register"
    /\ ret.report.path = "/users/{id}"
    /\ ret.report.method = "get"
    /\ ret.status = IntStatus(404)
    /\ DeclaredSchemas(ret.report.path, ret.report.method, ret.status) = {}
    /\ Len(_reports) = 2

Names(e, p) == \E i \in DOMAIN e : e[i] = p

\* The required properties of the located schema that the payload lacks.
MissingRequired(data, schema) ==
    IF data.t = "obj" /\ IsDict(schema) /\ Has(schema.m, "required")
    THEN {p \in Range(schema.m["required"]) : ~Has(data.o, p)}
    ELSE {}

Located == get_schema(ret.report.path, ret.report.method, ret.status)

\* C4 as claimed: every required property the payload lacks is named by one
\* of the finding's errors.
EveryMissingRequiredNamed ==
    ret.op = "register" =>
        \A p \in MissingRequired(ret.data, Located) :
            /\ drifted(ret.report)
            /\ \E i \in DOMAIN ret.report.errors : Names(ret.report.errors[i], p)

\* C4 as amended: a mapping payload that lacks required properties gives a
\* drifted finding with exactly one error; when those are its only top-level
\* violations the error names one of the missing properties, also when a
\* nested value is wrong as well.
OneMissingRequiredNamed ==
    (ret.op = "register" /\ MissingRequired(ret.data, Located) # {}) =>
        /\ drifted(ret.report)
        /\ Len(ret.report.errors) = 1
        /\ (Has(Located.m, "type") => is_type(ret.data, Located.m["type"])) =>
              \E p \in MissingRequired(ret.data, Located) :
                 ret.report.errors[1] = <<p, " is a required property">>

\* A payload that lacks a required property and has a wrong-typed one.
MissingRequiredWitness ==
    /\ ret.op = "register"
    /\ ret.data = UserNoEmailBadId
    /\ MissingRequired(ret.data, Located) = {"email"}
    /\ ret.report.errors = <<<<"email", " is a required property">>>>

\* C5 as claimed: when the declared schema is a reference to a name the
\* definition table lacks, checkMock returns a finding with no errors.
UnknownRefIsNotDrift ==
    (ret.op = "register"
       /\ \E schema \in DeclaredSchemas(ret.report.path, ret.report.method, ret.status) :
             /\ IsDict(schema)
             /\ Has(schema.m, "$ref")
             /\ ~Has(_defs, Last(schema.m["$ref"]))) =>
        ret.report.errors = <<>>

RECURSIVE Offset(_, _)
\* The number of errors in the first n reports.
Offset(reports, n) ==
    IF n = 0 THEN 0 ELSE Offset(reports, n - 1) + Len(reports[n].errors)

\* C6: the SARIF results are one entry per error, in finding order then error
\* order, each with the rule id, level "error", "{name}: {error}" as message and
\* the finding's path as location.
SarifOneResultPerViolation ==
    ret.op = "to_sarif" =>
        LET results == ret.sarif["runs"][1].results
        IN /\ Len(results) = Offset(ret.reports, Len(ret.reports))
           /\ \A i \in DOMAIN ret.reports : \A j \in DOMAIN ret.reports[i].errors :
                 LET entry_ == results[Offset(ret.reports, i - 1) + j]
                 IN /\ entry_.ruleId = "mockdrift/schema-drift"
                    /\ entry_.level = "error"
                    /\ entry_.message.text =
                          ret.reports[i].name \o <<": ">> \o ret.reports[i].errors[j]
                    /\ entry_.locations[1].physicalLocation.artifactLocation.uri =
                          ret.reports[i].path

\* Two findings with three errors between them.
SarifWitness ==
    /\ ret.op = "to_sarif"
    /\ Len(ret.reports) = 2
    /\ Len(ret.reports[1].errors) = 1
    /\ Len(ret.reports[2].errors) = 2
    /\ Len(ret.sarif["runs"][1].results) = 3

\* C8: a finding is drifted exactly when it has errors, and its to_dict
\* rendering has name, path, method, drifted and errors with the finding's
\* values.
DriftedIffErrors ==
    /\ ret.op = "register" => (drifted(ret.report) <=> ret.report.errors # <<>>)
    /\ ret.op = "check_cassette" =>
          \A i \in DOMAIN ret.reports :
              drifted(ret.reports[i]) <=> ret.reports[i].errors # <<>>
    /\ ret.op = "to_dict" =>
          \A i \in DOMAIN ret.reports :
              /\ DOMAIN ret.dicts[i] = {"name", "path", "method", "drifted", "errors"}
              /\ ret.dicts[i].name = ret.reports[i].name
              /\ ret.dicts[i].path = ret.reports[i].path
              /\ ret.dicts[i].method = ret.reports[i].method
              /\ ret.dicts[i].errors = ret.reports[i].errors
              /\ ret.dicts[i].drifted = (ret.reports[i].errors # <<>>)

\* The renderings of a drifted finding and of one that is not.
ToDictWitness ==
    /\ ret.op = "to_dict"
    /\ Len(ret.dicts) = 2
    /\ ret.dicts[1].drifted
    /\ ~ret.dicts[2].drifted

RECURSIVE RefFree(_)
\* No "$ref" key at the root, in any value under properties, or under items.
RefFree(schema) ==
    IsDict(schema) =>
        /\ ~Has(schema.m, "$ref")
        /\ Has(schema.m, "properties") =>
              \A k \in DOMAIN schema.m["properties"] : RefFree(schema.m["properties"][k])
        /\ Has(schema.m, "items") => RefFree(schema.m["items"])

\* C9: resolving a resolved schema changes nothing, and a resolved schema has
\* no reference at its root, under properties or under items.
ResolveIdempotent ==
    /\ ret.op = "_resolve" => RefFree(ret.result)
    /\ ret.op = "_resolve_twice" => ret.result = ret.first /\ RefFree(ret.first)

\* A schema with references under properties and items, resolved twice
\* through a definition that holds references itself.
ResolveWitness ==
    /\ ret.op = "_resolve_twice"
    /\ IsDict(ret.schema)
    /\ Has(ret.schema.m, "items")
    /\ ~RefFree(ret.schema)
    /\ ret.first # ret.schema
    /\ Has(_defs, "Team")

\* The properties of the body whose value has another type than the schema
\* declares for them.
WrongTyped(body, schema) ==
    IF body # None /\ body.t = "obj" /\ IsDict(schema) /\ Has(schema.m, "properties")
    THEN {p \in DOMAIN body.o \cap DOMAIN schema.m["properties"] :
             LET sub == schema.m["properties"][p]
             IN IsDict(sub) /\ Has(sub.m, "type") /\ ~is_type(body.o[p], sub.m["type"])}
    ELSE {}

\* C10 as claimed: a body with two or more wrong-typed properties gives a
\* finding with one body error for each of them.
EveryWrongTypeReported ==
    ret.op = "check_cassette" =>
        \A i \in DOMAIN ret.reports :
            LET ix == Interactions_(ret.data)[i]
                wrong == WrongTyped(response_body(ix), get_schema(PathOf(ix), MethodOf(ix),
                                                            StrStatus("200")))
            IN Cardinality(wrong) >= 2 =>
                  /\ drifted(ret.reports[i])
                  /\ Cardinality({j \in DOMAIN ret.reports[i].errors :
                                     IsBodyError(ret.reports[i].errors[j])}) >= 2

\* C7 as claimed: a cassette finding's actual_keys_diff lists the required
\* properties the body lacks under "missing" and the body's undeclared keys
\* under "extra", each left out when empty, and a body with extra keys gives a
\* drifted finding.
KeysDiffAndExtraDrifts ==
    ret.op = "check" =>
        \A i \in DOMAIN ret.reports :
            LET ix == Interactions_(ret.data)[i]
                body == response_body(ix)
                schema == ret.reports[i].expected_schema
                diff == ret.reports[i].actual_keys_diff
            IN (body # None /\ body.t = "obj" /\ schema # None /\ IsDict(schema)) =>
                  LET missing == {p \in Range(Get(schema.m, "required", <<>>)) :
                                     ~Has(body.o, p)}
                      extra == {k \in DOMAIN body.o :
                                   ~Has(Get(schema.m, "properties", EmptyMap), k)}
                  IN /\ Has(diff, "missing") <=> missing # {}
                     /\ Has(diff, "missing") => Range(diff["missing"]) = missing
                     /\ Has(diff, "extra") <=> extra # {}
                     /\ Has(diff, "extra") => Range(diff["extra"]) = extra
                     /\ extra # {} => ret.reports[i].errors # <<>>

====
